---- MODULE Spec2Model ----
(***************************************************************************)
(* Session lifecycle of databasemanager/manager.py: the thread-scoped      *)
(* session registry (scoped_session), the session() unit of work, sql_raw, *)
(* orm and the terminal operations of the query handle.                    *)
(*                                                                         *)
(* A calling context is a thread.  Each context runs a stack of frames:    *)
(* one frame per session() generator in progress (entered directly, or by  *)
(* sql_raw).  The database is the set of committed rows; a session holds   *)
(* the rows written in its open transaction (pending).                     *)
(***************************************************************************)
EXTENDS Naturals, Integers, Sequences, FiniteSets, TLC

\* ---------------------------------------------------------------- bounds
Contexts == {"t1", "t2"}
MaxDepth == 2      \* nesting depth of session()/sql_raw frames in a context
MaxWrites == 2     \* rows written during a run, all contexts together
MaxHandles == 2    \* query handles a context obtains from orm()

\* ---------------------------------------------------------------- errors
\* Exception subclasses: caught by "except Exception" (manager.py:136)
Exceptions == {"BodyErr", "ExecErr", "NoRowsErr", "CommitErr", "RollbackErr", "ReadErr"}
\* BaseException that is no Exception (KeyboardInterrupt, SystemExit)
BaseOnly == {"KeyboardInterrupt"}
NoExc == "none"

\* ------------------------------------------------------------ statements
\* text(query) handed to sql_raw, by what the engine does with it
Statements == {"select_all", "select_none", "update", "bad"}

VARIABLES
    registry,   \* scoped_session registry: context -> session id (0: no entry)
    sessions,   \* session id -> [owner, open, pending]
    committed,  \* rows committed to the database, each with the committing context
    discarded,  \* rows rolled back or dropped by close, each with the acting context
    stack,      \* context -> sequence of session() frames, innermost last
    handles,    \* context -> sequence of session ids bound to its query handles
    terminal,   \* context -> per query handle: a terminal operation has run on it
    nw,         \* context -> number of rows written so far
    ret,        \* context -> the operation that returned in the context's last step
    url,        \* a call of build_url: its arguments and, once made, its result
    ctor        \* a construction of DatabaseManager: its inputs and progress

vars == <<registry, sessions, committed, discarded, stack, handles, terminal, nw, ret,
          url, ctor>>

\* ------------------------------------------------------------------ rows
Row(c, n) == [ctx |-> c, n |-> n]

CommittedRows == {x.row : x \in committed}

By(rows, c) == {[row |-> r, by |-> c] : r \in rows}

\* every row written so far
Written == UNION {{Row(c, n) : n \in 1..nw[c]} : c \in Contexts}

CanWrite == Cardinality(Written) < MaxWrites

\* the order in which the engine hands out rows: storage order
Key(r) == 2 * r.n + (IF r.ctx = "t1" THEN 0 ELSE 1)

RECURSIVE ResultOrder(_)
ResultOrder(S) ==
    IF S = {} THEN <<>>
    ELSE LET m == CHOOSE r \in S : \A q \in S : Key(r) <= Key(q)
         IN <<m>> \o ResultOrder(S \ {m})

\* ---------------------------------------------------------------- frames
Top(c) == stack[c][Len(stack[c])]

SetTop(c, f) == [stack EXCEPT ![c] = [@ EXCEPT ![Len(@)] = f]]

\* a session() generator just called: nothing has run yet
NewFrame(op, stmt) ==
    [op |-> op, pc |-> "acquire", sid |-> 0, stmt |-> stmt, body |-> "run",
     exc |-> NoExc, log |-> <<>>, writes |-> {}, rows |-> {}, fetched |-> FALSE,
     cursor |-> <<>>, data |-> <<>>]

\* the caller's code is running: at top level, or inside a with-body
InCallerCode(c) ==
    IF stack[c] = <<>> THEN TRUE
    ELSE Top(c).op = "session" /\ Top(c).pc = "body"

Quiet(c) == [ret EXCEPT ![c] = "none"]

\* ------------------------------------------------- the session (library)
NewSession(c) == [owner |-> c, state |-> "closed", pending |-> {}]

\* a statement run on the session: the transaction begins on first use
SessWrite(s, row) == [s EXCEPT !.state = "active", !.pending = @ \cup {row}]

SessRead(s) == [s EXCEPT !.state = "active"]

SessCommit(s) == [s EXCEPT !.state = "ended", !.pending = {}]

SessRollback(s) == [s EXCEPT !.state = "ended", !.pending = {}]

SessClose(s) == [s EXCEPT !.state = "closed", !.pending = {}]

\* what a statement run on session sid sees: the database and its own writes
Visible(sid) == CommittedRows \cup sessions[sid].pending

\* --------------------------------------------------- scoped_session call
\* an always-new session, as a plain sessionmaker would hand out
FreshSession(c) ==
    [sid |-> Len(sessions) + 1,
     registry |-> [registry EXCEPT ![c] = Len(sessions) + 1],
     sessions |-> Append(sessions, NewSession(c))]

\* one session for the whole process, whoever asks
ProcessWideSession(c) ==
    [sid |-> 1,
     registry |-> [registry EXCEPT ![c] = 1],
     sessions |-> IF sessions = <<>> THEN <<NewSession(c)>> ELSE sessions]

\* a registry that forgets a session once it has been closed
ForgetfulSession(c) ==
    IF registry[c] # 0 /\ sessions[registry[c]].state # "closed"
    THEN [sid |-> registry[c], registry |-> registry, sessions |-> sessions]
    ELSE [sid |-> Len(sessions) + 1,
          registry |-> [registry EXCEPT ![c] = Len(sessions) + 1],
          sessions |-> Append(sessions, NewSession(c))]

\* self.Session(): the calling thread's session, created on its first call
ScopedSession(c) ==
    IF registry[c] # 0
    THEN [sid |-> registry[c], registry |-> registry, sessions |-> sessions]
    ELSE [sid |-> Len(sessions) + 1,
          registry |-> [registry EXCEPT ![c] = Len(sessions) + 1],
          sessions |-> Append(sessions, NewSession(c))]

\* ----------------------------------------- control flow of session()
\* a generator with no try block at all: any raise leaves at once
PcNoCleanup(outcome) == IF outcome = "ok" THEN "commit" ELSE "exit"

\* the body's success skips the commit
PcNoCommit(outcome) ==
    IF outcome = "ok" THEN "close"
    ELSE IF outcome \in Exceptions THEN "rollback" ELSE "close"

\* every error is committed like a success
PcCommitOnError(outcome) ==
    IF outcome = "ok" \/ outcome \in Exceptions THEN "commit" ELSE "close"

\* where control goes when the with-body is left (the yield, line 134):
\* on to commit, into "except Exception", or straight to "finally"
PcAfterBody(outcome) ==
    IF outcome = "ok" THEN "commit"
    ELSE IF outcome \in Exceptions THEN "rollback" ELSE "close"

\* a commit outside the try block: its failure is not rolled back
PcCommitUnguarded(ok) == "close"

\* after session.commit() (line 135): its failure is an Exception raised
\* inside the try block, so "except Exception" handles it
PcAfterCommit(ok) == IF ok THEN "close" ELSE "rollback"

\* a rollback whose failure skips the close
PcRollbackNoFinally(ok) == IF ok THEN "close" ELSE "exit"

\* after session.rollback() (line 137): "finally" runs whether or not it raised
PcAfterRollback(ok) == "close"

\* an except clause that forgets to re-raise
ExcSwallowed(exc, ok) == IF ok THEN NoExc ELSE "RollbackErr"

\* the exception in flight after the except clause (lines 137-138): the bare
\* raise re-raises what was caught, unless rollback itself raised
ExcAfterRollback(exc, ok) == IF ok THEN exc ELSE "RollbackErr"

\* -------------------------------------------------- what the engine does
ReturnsRows(stmt) == stmt \in {"select_all", "select_none"}

\* result.all() (line 163) on a result without rows raises ResourceClosedError
AllRaisesNever(stmt) == "ok"

\* the result handed to _SQLRaw without .all(): nothing is copied while the
\* cursor is open
LazyResult(cursor) == <<>>

\* result.all() (line 163): the rows left in the cursor, copied into a list
\* in the cursor's order
Materialize(cursor) == [i \in 1..Len(cursor) |-> cursor[i]]

AllOutcome(stmt) == IF ReturnsRows(stmt) THEN "ok" ELSE "NoRowsErr"

NoCall == [pc |-> "none"]

\* a manager just constructed: empty registry, nothing written, no call made
Constructed ==
    /\ registry = [c \in Contexts |-> 0]
    /\ sessions = <<>>
    /\ committed = {}
    /\ discarded = {}
    /\ stack = [c \in Contexts |-> <<>>]
    /\ handles = [c \in Contexts |-> <<>>]
    /\ terminal = [c \in Contexts |-> <<>>]
    /\ nw = [c \in Contexts |-> 0]
    /\ ret = [c \in Contexts |-> "none"]

Init == Constructed /\ url = NoCall /\ ctor = NoCall

\* ------------------------------------------------------ caller's actions
\* "with db.session() as session:" is entered
EnterSession(c) ==
    /\ InCallerCode(c)
    /\ Len(stack[c]) < MaxDepth
    /\ stack' = [stack EXCEPT ![c] = Append(@, NewFrame("session", "none"))]
    /\ ret' = Quiet(c)
    /\ UNCHANGED <<registry, sessions, committed, discarded, handles, nw, terminal, url, ctor>>

\* db.sql_raw(query) is called
CallSqlRaw(c, stmt) ==
    /\ InCallerCode(c)
    /\ Len(stack[c]) < MaxDepth
    /\ stmt = "update" => CanWrite
    /\ stack' = [stack EXCEPT ![c] = Append(@, NewFrame("sql_raw", stmt))]
    /\ ret' = Quiet(c)
    /\ UNCHANGED <<registry, sessions, committed, discarded, handles, nw, terminal, url, ctor>>

\* session = self.Session()  (line 132)
Acquire(c) ==
    /\ stack[c] # <<>>
    /\ Top(c).pc = "acquire"
    /\ LET a == ScopedSession(c) IN
        /\ registry' = a.registry
        /\ sessions' = a.sessions
        /\ stack' = SetTop(c, [Top(c) EXCEPT !.sid = a.sid,
                        !.pc = IF Top(c).op = "sql_raw" THEN "execute" ELSE "body"])
    /\ ret' = Quiet(c)
    /\ UNCHANGED <<committed, discarded, handles, nw, terminal, url, ctor>>

\* the with-body writes a row through the yielded session
BodyWrite(c) ==
    /\ stack[c] # <<>>
    /\ Top(c).op = "session" /\ Top(c).pc = "body"
    /\ CanWrite
    /\ LET row == Row(c, nw[c] + 1) IN
        /\ sessions' = [sessions EXCEPT ![Top(c).sid] = SessWrite(@, row)]
        /\ stack' = SetTop(c, [Top(c) EXCEPT !.writes = @ \cup {row}])
    /\ nw' = [nw EXCEPT ![c] = @ + 1]
    /\ ret' = Quiet(c)
    /\ UNCHANGED <<registry, committed, discarded, handles, terminal, url, ctor>>

\* the with-body ends: normally (outcome "ok") or by raising
BodyExit(c, outcome) ==
    /\ stack[c] # <<>>
    /\ Top(c).op = "session" /\ Top(c).pc = "body"
    /\ stack' = SetTop(c, [Top(c) EXCEPT !.body = outcome,
                    !.exc = IF outcome = "ok" THEN NoExc ELSE outcome,
                    !.pc = PcAfterBody(outcome)])
    /\ ret' = Quiet(c)
    /\ UNCHANGED <<registry, sessions, committed, discarded, handles, nw, terminal, url, ctor>>

\* ------------------------------------------------------ sql_raw's body
\* result = session.execute(text(query), params or {})  (line 162)
Execute(c) ==
    /\ stack[c] # <<>>
    /\ Top(c).pc = "execute"
    /\ LET f == Top(c)
           row == Row(c, nw[c] + 1) IN
        CASE f.stmt = "bad" ->
                /\ stack' = SetTop(c, [f EXCEPT !.body = "ExecErr", !.exc = "ExecErr",
                                         !.pc = PcAfterBody("ExecErr")])
                /\ sessions' = [sessions EXCEPT ![f.sid] = SessRead(@)]
                /\ UNCHANGED nw
          [] f.stmt = "update" ->
                /\ stack' = SetTop(c, [f EXCEPT !.writes = @ \cup {row}, !.pc = "all"])
                /\ sessions' = [sessions EXCEPT ![f.sid] = SessWrite(@, row)]
                /\ nw' = [nw EXCEPT ![c] = @ + 1]
          [] f.stmt = "select_all" ->
                /\ stack' = SetTop(c, [f EXCEPT !.rows = Visible(f.sid),
                                         !.cursor = ResultOrder(Visible(f.sid)),
                                         !.pc = "all"])
                /\ sessions' = [sessions EXCEPT ![f.sid] = SessRead(@)]
                /\ UNCHANGED nw
          [] OTHER ->
                /\ stack' = SetTop(c, [f EXCEPT !.pc = "all"])
                /\ sessions' = [sessions EXCEPT ![f.sid] = SessRead(@)]
                /\ UNCHANGED nw
    /\ ret' = Quiet(c)
    /\ UNCHANGED <<registry, committed, discarded, handles, terminal, url, ctor>>

\* return _SQLRaw(result.all())  (line 163)
FetchAll(c) ==
    /\ stack[c] # <<>>
    /\ Top(c).pc = "all"
    /\ LET f == Top(c)
           o == AllOutcome(f.stmt) IN
        stack' = SetTop(c, [f EXCEPT !.body = o,
                              !.exc = IF o = "ok" THEN NoExc ELSE o,
                              !.fetched = (o = "ok"),
                              !.data = IF o = "ok" THEN Materialize(f.cursor) ELSE <<>>,
                              !.cursor = <<>>,
                              !.pc = PcAfterBody(o)])
    /\ ret' = Quiet(c)
    /\ UNCHANGED <<registry, sessions, committed, discarded, handles, nw, terminal, url, ctor>>

\* ------------------------------------------------- session()'s epilogue
\* a commit that would make durable only what the committing block wrote
OwnWritesOnly(f) == sessions[f.sid].pending \cap f.writes
\* what session.commit() (line 135) makes durable: all that is pending on
\* the Session object, whoever staged it
CommitSet(f) == sessions[f.sid].pending

\* session.commit()  (line 135); the engine may fail it
Commit(c) ==
    /\ stack[c] # <<>>
    /\ Top(c).pc = "commit"
    /\ \E ok \in BOOLEAN :
        LET f == Top(c) IN
        /\ stack' = SetTop(c, [f EXCEPT
                        !.log = Append(@, IF ok THEN "commit" ELSE "commit_failed"),
                        !.exc = IF ok THEN NoExc ELSE "CommitErr",
                        !.pc = PcAfterCommit(ok)])
        /\ IF ok
           THEN /\ sessions' = [sessions EXCEPT ![f.sid] = SessCommit(@)]
                /\ committed' = committed \cup By(CommitSet(f), c)
           ELSE UNCHANGED <<sessions, committed>>
    /\ ret' = Quiet(c)
    /\ UNCHANGED <<registry, discarded, handles, nw, terminal, url, ctor>>

\* session.rollback() then raise  (lines 137-138); the engine may fail it
Rollback(c) ==
    /\ stack[c] # <<>>
    /\ Top(c).pc = "rollback"
    /\ \E ok \in BOOLEAN :
        LET f == Top(c) IN
        /\ stack' = SetTop(c, [f EXCEPT
                        !.log = Append(@, IF ok THEN "rollback" ELSE "rollback_failed"),
                        !.exc = ExcAfterRollback(f.exc, ok),
                        !.pc = PcAfterRollback(ok)])
        /\ IF ok
           THEN /\ sessions' = [sessions EXCEPT ![f.sid] = SessRollback(@)]
                /\ discarded' = discarded \cup By(sessions[f.sid].pending, c)
           ELSE UNCHANGED <<sessions, discarded>>
    /\ ret' = Quiet(c)
    /\ UNCHANGED <<registry, committed, handles, nw, terminal, url, ctor>>

\* session.close()  (line 140)
Close(c) ==
    /\ stack[c] # <<>>
    /\ Top(c).pc = "close"
    /\ LET f == Top(c) IN
        /\ stack' = SetTop(c, [f EXCEPT !.log = Append(@, "close"),
                                 !.cursor = <<>>, !.pc = "exit"])
        /\ sessions' = [sessions EXCEPT ![f.sid] = SessClose(@)]
        /\ discarded' = discarded \cup By(sessions[f.sid].pending, c)
    /\ ret' = Quiet(c)
    /\ UNCHANGED <<registry, committed, handles, nw, terminal, url, ctor>>

\* an exception e reaches the code that made the call: at top level it ends
\* there; inside a with-body it leaves the body unless the body catches it
Deliver(stk, e, caught) ==
    IF stk = <<>> \/ e = NoExc \/ caught THEN stk
    ELSE [stk EXCEPT ![Len(stk)] = [@ EXCEPT !.body = e, !.exc = e,
                                             !.pc = PcAfterBody(e)]]

\* control returns from session()/sql_raw to its caller
Return(c) ==
    /\ stack[c] # <<>>
    /\ Top(c).pc = "exit"
    /\ \E caught \in BOOLEAN :
        /\ caught => (Len(stack[c]) > 1 /\ Top(c).exc \in Exceptions)
        /\ stack' = [stack EXCEPT ![c] =
                        Deliver(SubSeq(@, 1, Len(@) - 1), Top(c).exc, caught)]
    /\ ret' = [ret EXCEPT ![c] = Top(c).op]
    /\ UNCHANGED <<registry, sessions, committed, discarded, handles, nw, terminal, url, ctor>>

\* ------------------------------------------------------ the query handle
\* db.orm(model): self.Session().query(model)  (line 180)
Orm(c) ==
    /\ InCallerCode(c)
    /\ Len(handles[c]) < MaxHandles
    /\ LET a == ScopedSession(c) IN
        /\ registry' = a.registry
        /\ sessions' = a.sessions
        /\ handles' = [handles EXCEPT ![c] = Append(@, a.sid)]
        /\ terminal' = [terminal EXCEPT ![c] = Append(@, FALSE)]
    /\ ret' = [ret EXCEPT ![c] = "orm"]
    /\ UNCHANGED <<committed, discarded, stack, nw, url, ctor>>

\* a to_df that closes the session after a successful read only
ToDfCloseOnSuccess(s, ok) == IF ok THEN SessClose(s) ELSE s
\* to_df's finally clause (lines 42-43): session.close() whether read_sql
\* returned (ok) or raised
ToDfFinally(s, ok) == SessClose(s)

\* a terminal fetch that closes the session when done, as to_df does
QueryAllClosing(c, h) ==
    /\ InCallerCode(c)
    /\ h \in DOMAIN handles[c]
    /\ terminal' = [terminal EXCEPT ![c][h] = TRUE]
    /\ sessions' = [sessions EXCEPT ![handles[c][h]] = SessClose(@)]
    /\ discarded' = discarded \cup By(sessions[handles[c][h]].pending, c)
    /\ ret' = [ret EXCEPT ![c] = "all"]
    /\ UNCHANGED <<registry, committed, stack, handles, nw, url, ctor>>

\* a terminal fetch (Query.all, Query.first): runs on the bound session and
\* leaves it as it is
QueryAll(c, h) ==
    /\ InCallerCode(c)
    /\ h \in DOMAIN handles[c]
    /\ terminal' = [terminal EXCEPT ![c][h] = TRUE]
    /\ sessions' = [sessions EXCEPT ![handles[c][h]] = SessRead(@)]
    /\ ret' = [ret EXCEPT ![c] = "all"]
    /\ UNCHANGED <<registry, committed, discarded, stack, handles, nw, url, ctor>>

\* a bulk write (Query.update, Query.delete): staged in the bound session's
\* transaction
QueryUpdate(c, h) ==
    /\ InCallerCode(c)
    /\ h \in DOMAIN handles[c]
    /\ terminal' = [terminal EXCEPT ![c][h] = TRUE]
    /\ CanWrite
    /\ sessions' = [sessions EXCEPT ![handles[c][h]] = SessWrite(@, Row(c, nw[c] + 1))]
    /\ nw' = [nw EXCEPT ![c] = @ + 1]
    /\ ret' = [ret EXCEPT ![c] = "update"]
    /\ UNCHANGED <<registry, committed, discarded, stack, handles, url, ctor>>

\* _Query.to_df (lines 38-43): pd.read_sql through the engine, which may
\* raise; finally self.session.close()
QueryToDf(c, h) ==
    /\ InCallerCode(c)
    /\ h \in DOMAIN handles[c]
    /\ terminal' = [terminal EXCEPT ![c][h] = TRUE]
    /\ \E ok \in BOOLEAN, caught \in BOOLEAN :
        /\ LET sid == handles[c][h]
               s2 == ToDfFinally(sessions[sid], ok)
           IN  /\ sessions' = [sessions EXCEPT ![sid] = s2]
               /\ discarded' = discarded \cup
                                By(sessions[sid].pending \ s2.pending, c)
        /\ caught => (~ok /\ stack[c] # <<>>)
        /\ stack' = [stack EXCEPT ![c] =
                        Deliver(@, IF ok THEN NoExc ELSE "ReadErr", caught)]
    /\ ret' = [ret EXCEPT ![c] = "to_df"]
    /\ UNCHANGED <<registry, committed, handles, nw, url, ctor>>

\* ------------------------------------------------------------------ next
Step(c) ==
    \/ EnterSession(c)
    \/ \E stmt \in Statements : CallSqlRaw(c, stmt)
    \/ Acquire(c)
    \/ BodyWrite(c)
    \/ \E o \in {"ok", "BodyErr"} \cup BaseOnly : BodyExit(c, o)
    \/ Execute(c)
    \/ FetchAll(c)
    \/ Commit(c)
    \/ Rollback(c)
    \/ Close(c)
    \/ Return(c)
    \/ Orm(c)
    \/ \E h \in 1..MaxHandles : QueryAll(c, h) \/ QueryUpdate(c, h) \/ QueryToDf(c, h)

\* one context on its own: the operations of one thread, nested at will
Next == Step("t1")

Spec == Init /\ [][Next]_vars

\* several contexts at once, their steps interleaved: each runs units of work
\* (session() blocks, sql_raw calls) one after another from its top level and
\* may obtain a query handle.  Of the statements, the two whose effect another
\* context could see: a read of the rows, and a write (which sql_raw then
\* rolls back)
StepConc(c) ==
    \/ stack[c] = <<>> /\ EnterSession(c)
    \/ \E stmt \in {"select_all", "update"} : stack[c] = <<>> /\ CallSqlRaw(c, stmt)
    \/ stack[c] = <<>> /\ handles[c] = <<>> /\ Orm(c)
    \/ Acquire(c)
    \/ BodyWrite(c)
    \/ \E o \in {"ok", "BodyErr"} \cup BaseOnly : BodyExit(c, o)
    \/ Execute(c)
    \/ FetchAll(c)
    \/ Commit(c)
    \/ Rollback(c)
    \/ Close(c)
    \/ Return(c)

NextConc == \E c \in Contexts : StepConc(c)

SpecConc == Init /\ [][NextConc]_vars

\* ============================================================ build_url
\* Strings are sequences of one-character strings.
MaxPath == 4

PathChars == {"\\", "/", "a"}

\* Python's None among the optional arguments
None == <<"<None>">>

\* truthiness of an optional string argument: None and "" are false
Truthy(x) == x # None /\ x # <<>>

\* what an f-string or str() renders
Format(x) == IF x = None THEN <<"N", "o", "n", "e">> ELSE x

UpperToLower ==
    "A" :> "a" @@ "B" :> "b" @@ "C" :> "c" @@ "D" :> "d" @@ "E" :> "e" @@ "F" :> "f" @@
    "G" :> "g" @@ "H" :> "h" @@ "I" :> "i" @@ "J" :> "j" @@ "K" :> "k" @@ "L" :> "l" @@
    "M" :> "m" @@ "N" :> "n" @@ "O" :> "o" @@ "P" :> "p" @@ "Q" :> "q" @@ "R" :> "r" @@
    "S" :> "s" @@ "T" :> "t" @@ "U" :> "u" @@ "V" :> "v" @@ "W" :> "w" @@ "X" :> "x" @@
    "Y" :> "y" @@ "Z" :> "z"

\* str.lower()
Lower(x) == [i \in DOMAIN x |->
                IF x[i] \in DOMAIN UpperToLower THEN UpperToLower[x[i]] ELSE x[i]]

\* str.replace(old, new) for one-character old and new
Replace(x, old, new) == [i \in DOMAIN x |-> IF x[i] = old THEN new ELSE x[i]]

\* str.startswith(prefix)
StartsWith(x, prefix) ==
    Len(x) >= Len(prefix) /\ SubSeq(x, 1, Len(prefix)) = prefix

SqliteName == <<"s", "q", "l", "i", "t", "e">>
MssqlName == <<"m", "s", "s", "q", "l", "+", "p", "y", "o", "d", "b", "c">>
OdbcSuffix ==
    <<"?", "d", "r", "i", "v", "e", "r", "=", "O", "D", "B", "C", "+", "D", "r", "i", "v", "e", "r", "+", "1", "7", "+", "f", "o", "r", "+", "S", "Q", "L", "+", "S", "e", "r", "v", "e", "r">>

\* a strip that removes one leading slash only
StripOneSlash(path) == IF StartsWith(path, <<"/">>) THEN Tail(path) ELSE path
\* while path.startswith('/'): path = path[1:]  (line 110)
RECURSIVE StripSlashes(_)
StripSlashes(path) ==
    IF StartsWith(path, <<"/">>) THEN StripSlashes(Tail(path)) ELSE path

\* a credentials segment emitted as soon as one of the two is given
AuthIfEither(user, password) ==
    IF Truthy(user) \/ Truthy(password)
    THEN Format(user) \o <<":">> \o Format(password) \o <<"@">>
    ELSE <<>>
\* auth = f"{user}:{password}@" if user and password else ""  (line 115)
Auth(user, password) ==
    IF Truthy(user) /\ Truthy(password)
    THEN Format(user) \o <<":">> \o Format(password) \o <<"@">>
    ELSE <<>>

\* host_part (lines 118-120)
HostPart(host, port) ==
    (IF Truthy(host) THEN Format(host) ELSE <<"l", "o", "c", "a", "l", "h", "o", "s", "t">>)
    \o (IF Truthy(port) /\ Lower(Format(port)) # <<"n", "o", "n", "e">>
        THEN <<":">> \o Format(port) ELSE <<>>)

\* DatabaseManager.build_url (lines 107-127)
build_url(driver, database, user, password, host, port) ==
    IF Lower(driver) = SqliteName
    THEN LET path == Replace(database, "\\", "/") IN
         IF StartsWith(database, <<"\\", "\\">>)
         THEN <<"s", "q", "l", "i", "t", "e", ":", "/", "/", "/", "/">> \o StripSlashes(path)
         ELSE <<"s", "q", "l", "i", "t", "e", ":", "/", "/", "/">> \o path
    ELSE LET db_url == Format(driver) \o <<":", "/", "/">> \o Auth(user, password)
                        \o HostPart(host, port) \o <<"/">> \o Format(database)
         IN  IF driver = MssqlName THEN db_url \o OdbcSuffix ELSE db_url

\* the arguments tried
Drivers == {SqliteName, <<"S", "Q", "L", "i", "t", "e">>, <<"S", "Q", "L", "I", "T", "E">>, <<"m", "y", "s", "q", "l">>, MssqlName}

RECURSIVE StringsUpTo(_)
StringsUpTo(n) ==
    IF n = 0 THEN {<<>>}
    ELSE LET shorter == StringsUpTo(n - 1) IN
         shorter \cup {Append(x, a) : x \in shorter, a \in PathChars}

Databases == StringsUpTo(MaxPath)

Users == {None, <<>>, <<"u">>}

Passwords == {None, <<>>, <<"p">>}

Hosts == {None, <<>>, <<"h">>}

Ports == {None, <<>>, <<"5">>, <<"n", "o", "n", "e">>, <<"N", "o", "n", "e">>}

\* a caller about to call build_url with arguments from the sets above
InitUrl ==
    /\ Constructed
    /\ ctor = NoCall
    /\ \E d \in Drivers, db \in Databases, u \in Users, pw \in Passwords,
          h \in Hosts, p \in Ports :
          url = [pc |-> "args", driver |-> d, database |-> db, user |-> u,
                 password |-> pw, host |-> h, port |-> p, out |-> None]

\* the call is made and returns
BuildUrl ==
    /\ url.pc = "args"
    /\ url' = [url EXCEPT !.pc = "done",
                          !.out = build_url(url.driver, url.database, url.user,
                                            url.password, url.host, url.port)]
    /\ UNCHANGED <<registry, sessions, committed, discarded, stack, handles,
                   terminal, nw, ret, ctor>>

NextUrl == BuildUrl

SpecUrl == InitUrl /\ [][NextUrl]_vars

\* ============================================================= __init__
Tables == {"A", "B"}

\* no base_models argument
NoModels == {"<None>"}

\* what the database_url argument can be: a URL of an installed dialect, a
\* string that is no URL (create_engine raises ArgumentError), a dialect
\* whose DBAPI is not installed (create_engine raises ImportError)
UrlKinds == {"good", "malformed", "no_dbapi"}

\* SQLAlchemyError covers ArgumentError, OperationalError, DatabaseError
SQLAlchemyErrors == {"ArgumentError", "OperationalError", "DatabaseError"}

\* create_engine(database_url)  (line 60)
create_engine(kind) ==
    CASE kind = "good" -> NoExc
      [] kind = "malformed" -> "ArgumentError"
      [] kind = "no_dbapi" -> "ImportError"

\* MetaData.create_all(engine)  (line 193): every described table that does
\* not exist yet is created
create_all(tables, models) == tables \cup models

\* DatabaseManager(database_url, base_models) is about to run
InitCtor ==
    /\ Constructed
    /\ url = NoCall
    /\ \E k \in UrlKinds, r \in BOOLEAN, q \in BOOLEAN,
          m \in {NoModels, {"A"}, {"A", "B"}}, t \in SUBSET Tables :
          ctor = [pc |-> "create_engine", urlkind |-> k, reachable |-> r,
                  select_ok |-> q, base_models |-> m, tables |-> t,
                  engine |-> FALSE, Session |-> FALSE, ddl |-> FALSE,
                  printed |-> <<>>, raised |-> NoExc]

CtorUnchanged ==
    UNCHANGED <<registry, sessions, committed, discarded, stack, handles,
                terminal, nw, ret, url>>

\* self.engine = create_engine(...)  (line 60): outside the try block, so
\* whatever it raises leaves __init__
CtorCreateEngine ==
    /\ ctor.pc = "create_engine"
    /\ LET e == create_engine(ctor.urlkind) IN
        ctor' = IF e = NoExc
                THEN [ctor EXCEPT !.engine = TRUE, !.pc = "scoped_session"]
                ELSE [ctor EXCEPT !.raised = e, !.pc = "raised"]
    /\ CtorUnchanged

\* self.Session = scoped_session(sessionmaker(...))  (line 61)
CtorScopedSession ==
    /\ ctor.pc = "scoped_session"
    /\ ctor' = [ctor EXCEPT !.Session = TRUE, !.pc = "connect"]
    /\ CtorUnchanged

\* with self.engine.connect() as conn  (line 64)
CtorConnect ==
    /\ ctor.pc = "connect"
    /\ ctor' = IF ctor.reachable
               THEN [ctor EXCEPT !.pc = "probe"]
               ELSE [ctor EXCEPT !.raised = "OperationalError", !.pc = "except"]
    /\ CtorUnchanged

\* conn.execute(text("SELECT 1")) and the report of success  (lines 65-66)
CtorProbe ==
    /\ ctor.pc = "probe"
    /\ ctor' = IF ctor.select_ok
               THEN [ctor EXCEPT !.printed = Append(@, "connected"),
                                 !.pc = "base_models"]
               ELSE [ctor EXCEPT !.raised = "DatabaseError", !.pc = "except"]
    /\ CtorUnchanged

\* if base_models: ... self.create_all(base_models.metadata)  (lines 68-70)
CtorCreateAll ==
    /\ ctor.pc = "base_models"
    /\ ctor' = IF ctor.base_models # NoModels
               THEN [ctor EXCEPT !.printed = Append(@, "creating"),
                                 !.ddl = TRUE,
                                 !.tables = create_all(@, ctor.base_models),
                                 !.pc = "done"]
               ELSE [ctor EXCEPT !.pc = "done"]
    /\ CtorUnchanged

\* except SQLAlchemyError as e: print(...)  (lines 71-72)
CtorExcept ==
    /\ ctor.pc = "except"
    /\ ctor' = IF ctor.raised \in SQLAlchemyErrors
               THEN [ctor EXCEPT !.printed = Append(@, "error"),
                                 !.raised = NoExc, !.pc = "done"]
               ELSE [ctor EXCEPT !.pc = "raised"]
    /\ CtorUnchanged

NextCtor ==
    \/ CtorCreateEngine
    \/ CtorScopedSession
    \/ CtorConnect
    \/ CtorProbe
    \/ CtorCreateAll
    \/ CtorExcept

SpecCtor == InitCtor /\ [][NextCtor]_vars

\* ===================================================== properties
\* a session() generator that has run to its end and is about to hand
\* control back: only the innermost frame of a context can be there
Exited ==
    {Top(c) : c \in {d \in Contexts :
                        IF stack[d] = <<>> THEN FALSE ELSE Top(d).pc = "exit"}}

Frames(c) == {stack[c][i] : i \in DOMAIN stack[c]}

Last(log) == log[Len(log)]

Count(log, e) == Cardinality({i \in DOMAIN log : log[i] = e})

CommitCalled(f) == Count(f.log, "commit") + Count(f.log, "commit_failed") > 0

RollbackCalled(f) == Count(f.log, "rollback") + Count(f.log, "rollback_failed") > 0

Raised(f) == f.body \notin {"ok", "run"}

\* the context's session holds nothing: closed, no pending write
SessionReleased(c) ==
    IF registry[c] = 0 THEN TRUE
    ELSE /\ sessions[registry[c]].state = "closed"
         /\ sessions[registry[c]].pending = {}

\* C1: on every exit path of session() (body completing, body raising,
\* commit raising, rollback raising) session.close() has been executed,
\* once and as the last step, before control returns to the caller.
C1_CloseOnEveryExit ==
    \A f \in Exited :
        /\ f.log # <<>>
        /\ Last(f.log) = "close"
        /\ Count(f.log, "close") = 1
        /\ sessions[f.sid].state = "closed"

\* C1 witness: the hardest path has been run to its end: commit raised, then
\* rollback raised, and the frame is about to return.
C1_Witness ==
    \E f \in Exited : f.log = <<"commit_failed", "rollback_failed", "close">>

\* C2: whenever the with-body completes without raising, commit is the first
\* thing called and close the last, commit before close; when the commit
\* goes through the unit of work is exactly commit then close and returns
\* without error.
C2_CommitThenClose ==
    \A f \in Exited :
        f.body = "ok" =>
            /\ Len(f.log) >= 2
            /\ f.log[1] \in {"commit", "commit_failed"}
            /\ Last(f.log) = "close"
            /\ (f.log[1] = "commit" <=> f.exc = NoExc)
            /\ (f.log[1] = "commit" => f.log = <<"commit", "close">>)

\* C2 witness: a body that wrote a row completed, the commit went through,
\* the row is in the database and the frame is about to return.
C2_Witness ==
    \E f \in Exited :
        /\ f.body = "ok" /\ f.log = <<"commit", "close">>
        /\ f.writes # {} /\ f.writes \subseteq CommittedRows

\* C3 as claimed: whenever the with-body raises an error, the session is
\* rolled back, then closed, no commit is performed, and the error that
\* reaches the caller is the one the body raised, never another.
C3_OriginalErrorAlways ==
    \A f \in Exited :
        f.body \in Exceptions =>
            /\ f.log = <<"rollback", "close">>
            /\ f.exc = f.body

\* C3 as amended: whenever the with-body raises an Exception, rollback is
\* called, then close, and commit is not; the error that reaches the caller
\* is the body's own when the rollback goes through and the rollback's error
\* when the rollback itself raises.  A body left by a BaseException that is
\* no Exception is closed without rollback or commit and that exception
\* reaches the caller unchanged.
C3_RollbackCloseReraise ==
    \A f \in Exited :
        /\ f.body \in Exceptions =>
                \/ f.log = <<"rollback", "close">> /\ f.exc = f.body
                \/ f.log = <<"rollback_failed", "close">> /\ f.exc = "RollbackErr"
        /\ f.body \in BaseOnly => f.log = <<"close">> /\ f.exc = f.body

\* C3 witness: a body that wrote a row raised, the rollback went through, the
\* row is gone and the body's error is on its way to the caller.
C3_Witness ==
    \E f \in Exited :
        /\ f.body = "BodyErr" /\ f.exc = "BodyErr"
        /\ f.log = <<"rollback", "close">>
        /\ f.writes # {} /\ f.writes \cap CommittedRows = {}

\* C4 as claimed: every execution of session() calls exactly one of commit
\* and rollback: never both, never neither, however the body exits and
\* whether or not commit fails.
C4_ExactlyOneOfCommitRollback ==
    \A f \in Exited : CommitCalled(f) # RollbackCalled(f)

\* C4 as amended: commit and rollback are both called exactly when commit
\* itself raises (the rollback then follows the failed commit); neither is
\* called exactly when the body is left by a BaseException that is no
\* Exception; in every other execution exactly one of them is called, and a
\* commit that went through is never followed by a rollback.
C4_CommitXorRollbackUnlessCommitFails ==
    \A f \in Exited :
        /\ (CommitCalled(f) /\ RollbackCalled(f)) <=> Count(f.log, "commit_failed") = 1
        /\ (~CommitCalled(f) /\ ~RollbackCalled(f)) <=> f.body \in BaseOnly
        /\ Count(f.log, "commit") = 1 => ~RollbackCalled(f)
        /\ Count(f.log, "commit") + Count(f.log, "commit_failed") <= 1
        /\ Count(f.log, "rollback") + Count(f.log, "rollback_failed") <= 1

\* C4 witness: a commit raised, the rollback that followed went through, and
\* the frame is about to return with the commit's error.
C4_Witness ==
    \E f \in Exited :
        f.log = <<"commit_failed", "rollback", "close">> /\ f.exc = "CommitErr"

\* C5: atomicity.  When the body of a session() block raises, none of the
\* rows it wrote is committed once session() has run to its end, and the
\* session is closed, also when the body called other manager operations
\* between its writes.
C5_NoWriteOfRaisingBodyCommitted ==
    \A f \in Exited :
        (f.op = "session" /\ Raised(f)) =>
            /\ f.writes \cap CommittedRows = {}
            /\ sessions[f.sid].state = "closed"

\* the Session instances a context holds: in its session() frames and in its
\* query handles
Held(c) ==
    {f.sid : f \in {g \in Frames(c) : g.sid # 0}}
        \cup {handles[c][h] : h \in DOMAIN handles[c]}

\* the Session instances ever created for a context
Owned(c) == {s \in DOMAIN sessions : sessions[s].owner = c}

\* C6: session identity is scoped per calling context.  Every acquisition in
\* one context (by session(), sql_raw or orm) yields the one Session instance
\* created for that context, and two contexts never hold the same instance.
C6_OneSessionPerContext ==
    /\ \A c \in Contexts :
        /\ Cardinality(Owned(c)) <= 1
        /\ Held(c) \subseteq Owned(c)
        /\ registry[c] # 0 => Owned(c) = {registry[c]}
    /\ \A c, d \in Contexts : c # d => Held(c) \cap Held(d) = {}

\* C6 witness: both contexts are inside a unit of work at once, one of them
\* also holding a query handle.
C6_Witness ==
    /\ \A c \in Contexts : \E f \in Frames(c) : f.sid # 0
    /\ \E c \in Contexts : handles[c] # <<>>
    /\ registry["t1"] # registry["t2"]

\* C7: isolation.  In any interleaving of two contexts, a statement of one
\* context never reads a row of the other that is not committed, a pending
\* row sits only in its writer's session, and a row is committed or
\* discarded only by the context that wrote it.
C7_Isolation ==
    /\ \A c \in Contexts : \A f \in Frames(c) : \A r \in f.rows :
            r.ctx = c \/ r \in CommittedRows
    /\ \A s \in DOMAIN sessions : \A r \in sessions[s].pending :
            r.ctx = sessions[s].owner
    /\ \A x \in committed : x.by = x.row.ctx
    /\ \A x \in discarded : x.by = x.row.ctx

\* C7 witness: one context has read the database while the other holds a
\* pending write; the reader saw a committed row of the writer and not the
\* pending one.
C7_Witness ==
    \E c, d \in Contexts :
        /\ c # d
        /\ registry[d] # 0
        /\ \E f \in Frames(c), p \in IF registry[d] = 0 THEN {}
                                     ELSE sessions[registry[d]].pending :
            /\ f.stmt = "select_all" /\ f.pc = "all"
            /\ p \notin f.rows
            /\ \E r \in f.rows : r.ctx = d

\* C8 as claimed: whenever any manager operation (session(), sql_raw, orm, a
\* terminal operation of a query handle) has just returned control, the
\* calling context's session is closed and holds no pending write.
C8_NoSessionLeftOpenByAnyOperation ==
    \A c \in Contexts : ret[c] # "none" => SessionReleased(c)

\* C8 as amended: whenever session(), sql_raw or to_df has just returned
\* control, by return or by raising, the calling context's session is closed
\* and holds no pending write.  orm() and the terminal fetch and bulk-write
\* operations of a query handle do not go through the unit of work and leave
\* the session as it is.
C8_UnitOfWorkAndToDfReleaseSession ==
    \A c \in Contexts :
        ret[c] \in {"session", "sql_raw", "to_df"} => SessionReleased(c)

\* C8 witness: sql_raw has just returned into a with-body that had written a
\* row, and the context's session is closed.
C8_Witness ==
    \E c \in Contexts :
        /\ ret[c] = "sql_raw"
        /\ stack[c] # <<>>
        /\ \E f \in Frames(c) : f.writes # {}
        /\ SessionReleased(c)

\* C9: when the engine raises on the statement handed to sql_raw, rollback
\* is called, then close, commit is not, nothing the call wrote is committed,
\* and sql_raw leaves by raising: the engine's error, or the rollback's
\* when the rollback itself raised.
C9_ExecErrorRolledBackAndRaised ==
    \A f \in Exited :
        (f.op = "sql_raw" /\ f.body = "ExecErr") =>
            /\ f.log \in {<<"rollback", "close">>, <<"rollback_failed", "close">>}
            /\ f.exc \in Exceptions
            /\ (f.log[1] = "rollback" => f.exc = "ExecErr")
            /\ sessions[f.sid].state = "closed"
            /\ sessions[f.sid].pending = {}

\* C9 witness: sql_raw, called inside a with-body that had written a row, hit
\* an engine error; the rollback went through, taking the body's row with
\* it, and sql_raw is about to raise the engine's error.
C9_Witness ==
    \E f \in Exited :
        /\ f.op = "sql_raw" /\ f.stmt = "bad"
        /\ f.exc = "ExecErr" /\ f.log = <<"rollback", "close">>
        /\ \E g \in Frames(sessions[f.sid].owner) :
                /\ g.pc = "body" /\ g.writes # {}
                /\ g.writes \subseteq {x.row : x \in discarded}

\* C10: sql_raw never raises merely because the statement yields no rows: a
\* statement that executes and produces no rows (a SELECT matching nothing,
\* an UPDATE) gets through the body and the result is empty.
C10_NoRowsIsNoError ==
    \A f \in Exited :
        (f.op = "sql_raw" /\ f.stmt \in {"select_none", "update"}) =>
            /\ f.body = "ok"
            /\ f.rows = {}

IsSqlRaw(f) == f.op = "sql_raw"

\* C11: in sql_raw all result rows are materialized before the session is
\* committed and closed: commit is never called on a sql_raw whose rows are
\* not yet copied.  The result holds exactly the rows the statement
\* produced, in the result's order, and still does once the session has
\* been committed and closed and the cursor is gone.
C11_RowsMaterializedBeforeClose ==
    \A c \in Contexts : \A f \in Frames(c) :
        /\ (IsSqlRaw(f) /\ f.body = "ok") =>
                /\ f.fetched
                /\ f.cursor = <<>>
                /\ f.data = ResultOrder(f.rows)
                /\ Len(f.data) = Cardinality(f.rows)
        /\ (IsSqlRaw(f) /\ f.log # <<>> /\ ~Raised(f)) => f.fetched
        /\ (IsSqlRaw(f) /\ f.pc = "all") => f.log = <<>>

\* C11 witness: sql_raw, called in a with-body, is about to return a result
\* of two rows read before its session was committed and closed.
C11_Witness ==
    \E f \in Exited :
        /\ IsSqlRaw(f) /\ f.exc = NoExc
        /\ Len(f.data) = 2
        /\ f.log = <<"commit", "close">>
        /\ sessions[f.sid].state = "closed"

\* C12 as claimed: the session bound to a query handle returned by orm() is
\* a new one: it is not the session of any handle returned earlier, nor the
\* session used by session()/sql_raw in the same context.
C12_OrmSessionIsNew ==
    \A c \in Contexts : \A h \in DOMAIN handles[c] :
        /\ \A f \in Frames(c) : f.sid # handles[c][h]
        /\ \A k \in DOMAIN handles[c] : k # h => handles[c][k] # handles[c][h]

\* C12 as amended: each call to orm(model) returns a query bound to the
\* calling context's scoped Session: the same instance that every handle
\* returned earlier in that context is bound to and that session()/sql_raw
\* use there; a Session is created only by a context's first acquisition.
C12_OrmSessionIsTheScopedOne ==
    \A c \in Contexts : \A h \in DOMAIN handles[c] :
        /\ handles[c][h] = registry[c]
        /\ \A f \in Frames(c) : f.sid # 0 => f.sid = handles[c][h]
        /\ \A k \in DOMAIN handles[c] : handles[c][k] = handles[c][h]
        /\ Cardinality(Owned(c)) = 1

\* C12 witness: a context holds two query handles and is inside a unit of
\* work that has acquired its session.
C12_Witness ==
    \E c \in Contexts :
        /\ Len(handles[c]) >= 2
        /\ \E f \in Frames(c) : f.sid # 0

\* this step is commit, rollback or close of a unit of work of context c on
\* session sid
UnitOfWorkActsOn(c, sid) ==
    IF stack[c] = <<>> THEN FALSE
    ELSE /\ Len(stack'[c]) = Len(stack[c])
         /\ Top(c).sid = sid
         /\ Len(stack'[c][Len(stack[c])].log) > Len(Top(c).log)

\* this step ends the transaction of session sid or drops rows pending on it
SessionEnded(sid) ==
    \/ sessions[sid].state = "active" /\ sessions'[sid].state # "active"
    \/ ~(sessions[sid].pending \subseteq sessions'[sid].pending)

\* C13 as claimed: from orm() until a terminal operation runs on the handle,
\* no other manager operation of the same context (sql_raw, session(),
\* another handle's to_df) commits, rolls back or closes the handle's session.
C13_HandleSessionLeftAlone ==
    [][\A c \in Contexts : \A h \in DOMAIN handles[c] :
            ~terminal'[c][h] =>
                /\ ~UnitOfWorkActsOn(c, handles[c][h])
                /\ ret'[c] # "to_df"]_vars

\* C13 as amended: the session bound to a query handle is the context's
\* scoped session.  orm(), the terminal fetches and the bulk writes of a
\* handle leave it as it is; the only steps that end its transaction or drop
\* what is pending on it are the commit, rollback and close of a session() or
\* sql_raw unit of work of the same context and the to_df of any handle of
\* that context, whether or not a terminal operation has run on the handle.
C13_OnlyUnitOfWorkOrToDfEndsSession ==
    [][\A c \in Contexts : \A h \in DOMAIN handles[c] :
            SessionEnded(handles[c][h]) =>
                \/ UnitOfWorkActsOn(c, handles[c][h])
                \/ ret'[c] = "to_df"]_vars

\* C13 witness: a handle on which no terminal operation has run yet, and
\* sql_raw has just committed and closed the session it is bound to.
C13_Witness ==
    \E c \in Contexts : \E h \in DOMAIN handles[c] :
        /\ ~terminal[c][h]
        /\ ret[c] = "sql_raw"
        /\ sessions[handles[c][h]].state = "closed"
        /\ committed # {}

\* C14: when to_df has just handed control back, the session bound to the
\* query is closed with nothing pending on it, both when the table was
\* returned and when read_sql raised; an error that reached an enclosing
\* with-body arrived there after the close, before that block's own
\* rollback.
C14_ToDfAlwaysCloses ==
    \A c \in Contexts : ret[c] = "to_df" =>
        /\ \E h \in DOMAIN handles[c] :
              /\ terminal[c][h]
              /\ sessions[handles[c][h]].state = "closed"
              /\ sessions[handles[c][h]].pending = {}
        /\ \A f \in Frames(c) : f.body = "ReadErr" =>
              /\ sessions[f.sid].state = "closed"
              /\ f.log = <<>>

\* C14 witness: read_sql raised inside a with-body that had staged a row;
\* the error is in the body and the handle's session is already closed.
C14_Witness ==
    \E c \in Contexts : \E h \in DOMAIN handles[c] :
        /\ ret[c] = "to_df"
        /\ stack[c] # <<>>
        /\ Top(c).body = "ReadErr"
        /\ Top(c).writes # {}
        /\ sessions[handles[c][h]].state = "closed"

\* C19: a successful commit at the exit of a session() block or of sql_raw
\* makes durable everything that was pending on the context's shared session
\* at that moment: the block's own writes, those of an enclosing block still
\* in progress and those staged through a query handle.
C19_CommitTakesAllPending ==
    [][\A c \in Contexts :
          (/\ stack[c] # <<>>
           /\ Len(stack'[c]) = Len(stack[c])
           /\ Top(c).pc = "commit"
           /\ Last(stack'[c][Len(stack[c])].log) = "commit")
          => /\ sessions[registry[c]].pending \subseteq {x.row : x \in committed'}
             /\ \A g \in Frames(c) : g.sid = registry[c]
             /\ \A h \in DOMAIN handles[c] : handles[c][h] = registry[c]]_vars

\* C19 witness: a block that wrote nothing itself has just committed; a row
\* written by the enclosing block, which is still in its body, and a row
\* staged through a query handle are both committed.
C19_Witness ==
    \E c \in Contexts :
        /\ Len(stack[c]) = 2
        /\ Top(c).pc = "close"
        /\ Top(c).log = <<"commit">>
        /\ Top(c).writes = {}
        /\ stack[c][1].pc = "body"
        /\ stack[c][1].writes # {}
        /\ stack[c][1].writes \subseteq CommittedRows
        /\ \E h \in DOMAIN handles[c] : terminal[c][h]
        /\ CommittedRows \ stack[c][1].writes # {}

\* C20: no step removes or replaces a context's entry in the scoped-session
\* registry; Session objects are created only for contexts that had no entry,
\* so there are exactly as many as registry entries; an acquisition made
\* after the context's session was closed returns that same Session.
C20_RegistryOnlyGrows ==
    [][\A c \in Contexts :
          /\ registry[c] # 0 => registry'[c] = registry[c]
          /\ Len(sessions') >= Len(sessions)
          /\ Len(sessions') = Cardinality({d \in Contexts : registry'[d] # 0})
          /\ (stack'[c] # <<>> /\ stack'[c][Len(stack'[c])].sid # 0)
                => stack'[c][Len(stack'[c])].sid = registry'[c]]_vars

\* C20 witness: a top-level sql_raw call has acquired its session after an
\* earlier unit of work of the context committed and closed it, and it is
\* the one Session the context ever had.
C20_Witness ==
    \E c \in Contexts :
        /\ Len(stack[c]) = 1
        /\ IsSqlRaw(Top(c))
        /\ Top(c).log = <<>>
        /\ Top(c).sid # 0
        /\ Top(c).sid = registry[c]
        /\ committed # {}
        /\ Len(sessions) = 1

\* the characters of a string
Chars(x) == {x[i] : i \in DOMAIN x}

\* how many separators (backslash or slash) a path begins with
LeadingSeps(x) ==
    Cardinality({k \in DOMAIN x : \A i \in 1..k : x[i] \in {"\\", "/"}})

\* C17: for the driver 'sqlite' in any letter case and a database path that
\* begins with two backslashes, build_url returns 'sqlite:////' followed by
\* the path without its leading separators and with every backslash turned
\* into a slash: no backslash in the output, no slash right after the four.
C17_UncPathFourSlashes ==
    (/\ url.pc = "done"
     /\ Lower(url.driver) = SqliteName
     /\ StartsWith(url.database, <<"\\", "\\">>))
    => LET k == LeadingSeps(url.database)
           rest == SubSeq(url.out, 12, Len(url.out))
       IN  /\ SubSeq(url.out, 1, 11) = <<"s", "q", "l", "i", "t", "e", ":", "/", "/", "/", "/">>
           /\ "\\" \notin Chars(url.out)
           /\ rest # <<>> => rest[1] # "/"
           /\ Len(rest) = Len(url.database) - k
           /\ \A i \in DOMAIN rest :
                 rest[i] = IF url.database[k + i] = "\\" THEN "/"
                           ELSE url.database[k + i]

\* C17 witness: 'SQLite' with a path of two backslashes, a slash and a name
\* gave 'sqlite:////a'.
C17_Witness ==
    /\ url.pc = "done"
    /\ url.driver = <<"S", "Q", "L", "i", "t", "e">>
    /\ url.database = <<"\\", "\\", "/", "a">>
    /\ url.out = <<"s", "q", "l", "i", "t", "e", ":", "/", "/", "/", "/">> \o <<"a">>

\* the forms driver://host[:port]/database can take for the call made
PlainUrls ==
    {url.driver \o <<":", "/", "/">> \o h \o p \o <<"/">> \o url.database :
        h \in {IF Truthy(url.host) THEN url.host ELSE <<"l", "o", "c", "a", "l", "h", "o", "s", "t">>},
        p \in {<<>>} \cup (IF Truthy(url.port) THEN {<<":">> \o url.port} ELSE {})}

CredentialUrls ==
    {url.driver \o <<":", "/", "/">> \o url.user \o <<":">> \o url.password
        \o <<"@">> \o h \o p \o <<"/">> \o url.database :
        h \in {IF Truthy(url.host) THEN url.host ELSE <<"l", "o", "c", "a", "l", "h", "o", "s", "t">>},
        p \in {<<>>} \cup (IF Truthy(url.port) THEN {<<":">> \o url.port} ELSE {})}

\* C18 as claimed: for a driver other than the file one, user:password@ is
\* in the result exactly when both are non-empty; otherwise the result is
\* exactly driver://host[:port]/database, host defaulting to localhost.
C18_ExactlyPlainUrlWithoutCredentials ==
    (url.pc = "done" /\ Lower(url.driver) # SqliteName)
    => IF Truthy(url.user) /\ Truthy(url.password)
       THEN StartsWith(url.out, url.driver \o <<":", "/", "/">> \o url.user
                                  \o <<":">> \o url.password \o <<"@">>)
       ELSE /\ url.out \in PlainUrls
            /\ "@" \notin Chars(url.out)

\* C18 as amended: for a driver other than the file one, user:password@ is
\* in the result exactly when both are non-empty, and no partial or 'None'
\* credentials otherwise; the result is driver://[user:password@]host[:port]
\* /database, host defaulting to localhost, followed by the fixed
\* '?driver=ODBC+Driver+17+for+SQL+Server' when the driver is exactly
\* 'mssql+pyodbc'.
C18_CredentialsIffBothAndOdbcSuffix ==
    (url.pc = "done" /\ Lower(url.driver) # SqliteName)
    => LET base == IF Truthy(url.user) /\ Truthy(url.password)
                   THEN CredentialUrls ELSE PlainUrls
       IN  /\ url.out \in IF url.driver = MssqlName
                          THEN {b \o OdbcSuffix : b \in base} ELSE base
           /\ ~(Truthy(url.user) /\ Truthy(url.password))
                 => "@" \notin Chars(url.out)

\* C18 witness: 'mssql+pyodbc' with a user and no password gave a result
\* without credentials that ends with the ODBC suffix.
C18_Witness ==
    /\ url.pc = "done"
    /\ url.driver = MssqlName
    /\ url.user = <<"u">> /\ url.password = None
    /\ url.host = None /\ url.port = <<"5">>
    /\ url.out = MssqlName \o <<":", "/", "/">> \o <<"l", "o", "c", "a", "l", "h", "o", "s", "t">> \o <<":", "5", "/">>
                    \o url.database \o OdbcSuffix

\* C15: constructing a DatabaseManager never raises because of a connection
\* error, be it an unreachable engine or a bad connection string: the
\* failure is reported and construction completes with the engine handle
\* and the session factory both set.
C15_ConstructionNeverRaises ==
    /\ ctor.pc # "raised"
    /\ ctor.pc = "done" => /\ ctor.engine /\ ctor.Session
                           /\ ctor.raised = NoExc

\* C16: a construction given a schema descriptor has issued the
\* create-tables DDL when it completes, whatever the probe's outcome, and
\* every described table exists when the engine could be reached.
C16_SchemaAlwaysCreated ==
    (ctor.pc = "done" /\ ctor.base_models # NoModels)
    => /\ ctor.ddl
       /\ ctor.reachable => ctor.base_models \subseteq ctor.tables

====
